---- MODULE Spec2Model ----
(***************************************************************************)
(* A model of MultiPropPlugin (src/src/main.ts): the bulk add / remove of  *)
(* frontmatter properties over a folder tree or a file list, the property  *)
(* name collection that feeds the remove dialog, the four commands and the *)
(* tab-group file lookup.                                                  *)
(*                                                                         *)
(* JavaScript runs one task at a time: an async function runs without      *)
(* interruption up to an await on host I/O (processFrontMatter).  Each     *)
(* action below is one such uninterrupted run.                             *)
(***************************************************************************)
EXTENDS Integers, Sequences, FiniteSets, TLC

\* ---------------------------------------------------------------- bounds
\* Largest number of files and folders in a generated folder tree.
MaxNodes == 3
\* Longest explicit file list handed to searchFiles / getPropsFromFiles.
MaxList == 3
\* Largest number of workspace leaves.
MaxLeaves == 3

\* ------------------------------------------------------------- the vault
\* A TAbstractFile: a TFile (kind "file", with an extension) or a TFolder
\* (kind "folder", with children).  The path is the position in the tree.
FileNode(ext, path) == [kind |-> "file", ext |-> ext, path |-> path, children |-> <<>>]

FolderNode(path, children) == [kind |-> "folder", ext |-> "", path |-> path, children |-> children]

Extensions == {"md", "png"}

\* obj instanceof TFile && obj.extension === "md"
IsMarkdown(obj) == obj.kind = "file" /\ obj.ext = "md"

\* obj instanceof TFolder
IsFolder(obj) == obj.kind = "folder"

\* All children lists of exactly n nodes (at any depth); the first child gets
\* path prefix \o <<start>>.
RECURSIVE ForestsOfSize(_, _, _)
ForestsOfSize(n, prefix, start) ==
  IF n = 0 THEN {<<>>}
  ELSE LET p == Append(prefix, start)
           leafFirst == { <<FileNode(e, p)>> \o rest :
                            e \in Extensions, rest \in ForestsOfSize(n - 1, prefix, start + 1) }
           folderFirst == UNION { { <<FolderNode(p, inner)>> \o rest :
                                      inner \in ForestsOfSize(k, p, 1),
                                      rest \in ForestsOfSize(n - 1 - k, prefix, start + 1) } :
                                  k \in 0 .. (n - 1) }
       IN leafFirst \cup folderFirst

Forests == UNION { ForestsOfSize(n, <<>>, 1) : n \in 0 .. MaxNodes }

\* The markdown files below a children list, at any depth.
RECURSIVE MarkdownBelow(_)
MarkdownBelow(children) ==
  UNION { IF children[i].kind = "file" /\ children[i].ext = "md" THEN {children[i].path}
          ELSE IF children[i].kind = "folder" THEN MarkdownBelow(children[i].children)
          ELSE {} : i \in 1 .. Len(children) }

\* The fixed entries explicit file lists are drawn from: two notes, an
\* attachment and a folder holding a note.
ListNote1 == FileNode("md", <<1>>)

ListNote2 == FileNode("md", <<2>>)

ListImage == FileNode("png", <<3>>)

ListFolder == FolderNode(<<4>>, <<FileNode("md", <<4, 1>>)>>)

ListEntries == {ListNote1, ListNote2, ListImage, ListFolder}

RECURSIVE SeqsUpTo(_, _)
SeqsUpTo(S, n) ==
  IF n = 0 THEN {<<>>}
  ELSE LET shorter == SeqsUpTo(S, n - 1)
       IN shorter \cup { Append(s, x) : s \in { t \in shorter : Len(t) = n - 1 }, x \in S }

FileLists == SeqsUpTo(ListEntries, MaxList)

\* What createPropModal / createRemoveModal can be handed: a TFolder or a list.
FolderTarget(children) == [kind |-> "folder", items |-> children]

ListTarget(files) == [kind |-> "list", items |-> files]

Targets == { FolderTarget(c) : c \in Forests } \cup { ListTarget(l) : l \in FileLists }

\* ------------------------------------------------------------ frontmatter
\* A frontmatter value is a sequence of items; Absent marks a missing key.
PropNames == {"status", "tags"}

Absent == [has |-> FALSE, val |-> <<>>]

Present(items) == [has |-> TRUE, val |-> items]

EmptyDoc == [n \in PropNames |-> Absent]

Docs == { EmptyDoc,
          [EmptyDoc EXCEPT !["tags"] = Present(<<"x">>)],
          [EmptyDoc EXCEPT !["status"] = Present(<<"draft">>)] }

Keys(doc) == { n \in PropNames : doc[n].has }

\* The host's property-name to type registry (getAllPropertyInfos).
TypeRegistry == [n \in PropNames |-> IF n = "tags" THEN "multitext" ELSE "text"]

IsListType(t) == t \in {"multitext", "tags", "aliases"}

\* Merge engine: the raw tokens of an incoming value coerced to the type.
Coerce(type, tokens) ==
  IF IsListType(type) THEN SelectSeq(tokens, LAMBDA t : t # "") ELSE tokens

Merge(current, incoming, overwrite, type) ==
  IF overwrite \/ ~current.has THEN Present(Coerce(type, incoming))
  ELSE IF IsListType(type) THEN Present(current.val \o Coerce(type, incoming))
  ELSE Present(Coerce(type, incoming))

\* addProperties: the updater run inside processFrontMatter for one file.
RECURSIVE addProperties(_, _, _, _)
addProperties(doc, props, overwrite, registry) ==
  IF props = <<>> THEN doc
  ELSE LET p == Head(props)
           next == IF p.name = "" THEN doc
                   ELSE [doc EXCEPT ![p.name] = Merge(doc[p.name], p.value, overwrite, registry[p.name])]
       IN addProperties(next, Tail(props), overwrite, registry)

\* removeProperties: deletes each named key, silently skipping absent ones.
removeProperties(doc, names) ==
  [n \in PropNames |-> IF \E i \in 1 .. Len(names) : names[i] = n THEN Absent ELSE doc[n]]

\* What the add dialog can submit, and what the remove dialog can submit.
AddInputs == { <<[name |-> "tags", value |-> <<"y", "", "z">>]>>,
               <<[name |-> "status", value |-> <<"final">>]>> }

RemoveInputs == { <<"tags">>, <<"status">> }

\* ------------------------------------------------------------------ state
VARIABLES
  target,     \* the TFolder or file list the operation was started on
  fm,         \* the persisted frontmatter of every markdown file, by path
  settings,   \* MultiPropSettings
  pc,         \* where the operation is
  op,         \* "add" or "remove": which per-file callback is in use
  props,      \* what the dialog submitted
  stack,      \* the frames of searchFolders / getPropsFromFolder, innermost last
  inflight,   \* the processFrontMatter calls issued and not yet settled
  log,        \* every callback invocation so far, with the mode it passed on
  recReads,   \* the values of settings.recursive the walk has read at folders
  fm0,        \* fm as it was before the operation
  heap,       \* the Set objects of the name collection, by reference
  names,      \* what the name collection returned
  notices,    \* the Notice texts shown so far
  dialog,     \* the modal that was opened, if any
  template,   \* what the vault holds at the default props path
  workspace,  \* the workspace leaves, the active leaf and the active file
  cmd,        \* the command that was invoked, if any
  files       \* what _getFilesFromTabGroup returned to the command

vars == <<target, fm, settings, pc, op, props, stack, inflight, log, recReads,
          fm0, heap, names, notices, dialog, template, workspace, cmd, files>>

\* defaultSettings, overridden by whatever loadData() returns.
defaultSettings == [overwrite |-> FALSE, recursive |-> TRUE, delimiter |-> ",", defaultPropPath |-> ""]

loadSettings == { [defaultSettings EXCEPT !.overwrite = o, !.recursive = r] : o, r \in BOOLEAN }

NoDialog == [kind |-> "none", defaultProps |-> <<>>, names |-> <<>>, overwrite |-> FALSE]

Frame(items, set) == [items |-> items, i |-> 1, names |-> set]

\* One processFrontMatter call: its number among the callback invocations of
\* the walk (0 for a read of the name collection), the file, the overwrite
\* argument evaluated when the callback was invoked, and the Set handed to
\* addPropToSet (0: none).
Visit(id, path, overwrite, set) == [id |-> id, file |-> path, overwrite |-> overwrite, set |-> set]

Advance(stk) == [stk EXCEPT ![Len(stk)].i = @ + 1]

Pop(stk) == SubSeq(stk, 1, Len(stk) - 1)

\* --------------------------------------------------------------- traversal
\* searchFolders with the recursive setting ignored: every subfolder is entered.
RECURSIVE searchFoldersAlwaysRecursive(_, _, _)
searchFoldersAlwaysRecursive(stk, recursive, folders) ==
  IF stk = <<>> THEN [stack |-> <<>>, start |-> <<>>, folders |-> folders]
  ELSE LET top == stk[Len(stk)]
       IN IF top.i > Len(top.items) THEN searchFoldersAlwaysRecursive(Pop(stk), recursive, folders)
          ELSE LET obj == top.items[top.i]
               IN IF IsFolder(obj)
                  THEN searchFoldersAlwaysRecursive(Append(Advance(stk), Frame(obj.children, 0)),
                                                    recursive, TRUE)
                  ELSE IF IsMarkdown(obj)
                  THEN [stack |-> Advance(stk), start |-> <<obj.path>>, folders |-> folders]
                  ELSE searchFoldersAlwaysRecursive(Advance(stk), recursive, folders)

\* searchFolders, run from the frames in stk up to its next await on host I/O
\* (start: the file whose callback was invoked) or to its return (stack <<>>).
\* folders: whether the run read settings.recursive.
RECURSIVE searchFolders(_, _, _)
searchFolders(stk, recursive, folders) ==
  IF stk = <<>> THEN [stack |-> <<>>, start |-> <<>>, folders |-> folders]
  ELSE LET top == stk[Len(stk)]
       IN IF top.i > Len(top.items) THEN searchFolders(Pop(stk), recursive, folders)
          ELSE LET obj == top.items[top.i]
               IN IF IsFolder(obj)
                  THEN IF recursive
                       THEN searchFolders(Append(Advance(stk), Frame(obj.children, 0)), recursive, TRUE)
                       ELSE searchFolders(Advance(stk), recursive, TRUE)
                  ELSE IF IsMarkdown(obj)
                  THEN [stack |-> Advance(stk), start |-> <<obj.path>>, folders |-> folders]
                  ELSE searchFolders(Advance(stk), recursive, folders)

\* searchFiles with the callback not awaited: the loop goes on to the next file
\* while the write of the previous one is still in flight.
RECURSIVE searchFilesNoAwait(_)
searchFilesNoAwait(stk) ==
  IF stk = <<>> THEN [stack |-> <<>>, start |-> <<>>, folders |-> FALSE]
  ELSE LET top == stk[Len(stk)]
       IN IF top.i > Len(top.items) THEN [stack |-> <<>>, start |-> <<>>, folders |-> FALSE]
          ELSE IF IsMarkdown(top.items[top.i])
          THEN [searchFilesNoAwait(Advance(stk)) EXCEPT !.start = <<top.items[top.i].path>> \o @]
          ELSE searchFilesNoAwait(Advance(stk))

\* searchFiles, likewise: one frame, folders are never entered.
RECURSIVE searchFiles(_)
searchFiles(stk) ==
  IF stk = <<>> THEN [stack |-> <<>>, start |-> <<>>, folders |-> FALSE]
  ELSE LET top == stk[Len(stk)]
       IN IF top.i > Len(top.items) THEN [stack |-> <<>>, start |-> <<>>, folders |-> FALSE]
          ELSE IF IsMarkdown(top.items[top.i])
          THEN [stack |-> Advance(stk), start |-> <<top.items[top.i].path>>, folders |-> FALSE]
          ELSE searchFiles(Advance(stk))

\* iterateFunc of createPropModal / createRemoveModal: the walk that fits the target.
Iterate(stk) ==
  IF target.kind = "folder" THEN searchFolders(stk, settings.recursive, FALSE) ELSE searchFiles(stk)

\* addPropsCallback / removePropsCallback: the overwrite argument is evaluated
\* when the callback is invoked on the file.
addPropsCallback(id, path) == Visit(id, path, settings.overwrite, 0)

removePropsCallback(id, path) == Visit(id, path, FALSE, 0)

Callback(id, path) ==
  IF op = "add" THEN addPropsCallback(id, path) ELSE removePropsCallback(id, path)

\* The updater the in-flight call runs on the file's frontmatter.
Updater(v, doc) ==
  IF op = "add" THEN addProperties(doc, props, v.overwrite, TypeRegistry)
  ELSE removeProperties(doc, props)

\* A rejected callback answered by a rollback of the batch: the vault is put
\* back as it was before the operation.
OnRejectRollback(docs) == fm0

\* A rejected callback: nothing in searchFolders / searchFiles catches it, the
\* frames unwind and the frontmatter stays as it is.
OnReject(docs) == docs

\* The walk continues after a run r of Iterate.
Continue(r, settled, reads) ==
  /\ stack' = r.stack
  /\ inflight' = (inflight \ settled)
                   \cup { Callback(Len(log) + k, r.start[k]) : k \in 1 .. Len(r.start) }
  /\ log' = log \o [k \in 1 .. Len(r.start) |-> Callback(Len(log) + k, r.start[k])]
  /\ recReads' = IF r.folders THEN reads \cup {settings.recursive} ELSE reads
  /\ pc' = IF r.start = <<>> /\ inflight \ settled = {} THEN "done" ELSE "running"

\* The dialog's submit: iterateFunc(props) starts the walk.
Submit ==
  /\ pc = "dialog"
  /\ \E p \in (IF op = "add" THEN AddInputs ELSE RemoveInputs) :
       /\ props' = p
       /\ Continue(Iterate(<<Frame(target.items, 0)>>), {}, {})
  /\ UNCHANGED <<target, fm, settings, op, fm0, heap, names, notices, dialog,
                 template, workspace, cmd, files>>

\* The host settles an in-flight write: the updater has run and is persisted.
ResolveVisit ==
  /\ pc = "running"
  /\ \E v \in inflight :
       /\ fm' = [fm EXCEPT ![v.file] = Updater(v, @)]
       /\ Continue(Iterate(stack), {v}, recReads)
  /\ UNCHANGED <<target, fm0, settings, op, props, heap, names, notices, dialog,
                 template, workspace, cmd, files>>

\* The host rejects an in-flight write (file deleted, malformed frontmatter).
RejectVisit ==
  /\ pc = "running"
  /\ \E v \in inflight :
       /\ inflight' = inflight \ {v}
       /\ fm' = OnReject(fm)
       /\ stack' = <<>>
       /\ pc' = "aborted"
  /\ UNCHANGED <<target, settings, op, props, log, recReads, fm0, heap, names, notices, dialog,
                 template, workspace, cmd, files>>

\* changeOverwrite(bool): the add dialog's toggle.
changeOverwrite ==
  /\ pc \in {"dialog", "running"}
  /\ op = "add"
  /\ \E b \in BOOLEAN : b # settings.overwrite /\ settings' = [settings EXCEPT !.overwrite = b]
  /\ UNCHANGED <<target, fm, pc, op, props, stack, inflight, log, recReads,
                 fm0, heap, names, notices, dialog,
                 template, workspace, cmd, files>>

\* The settings tab flips "recursive" while an operation is under way.
changeRecursive ==
  /\ pc \in {"dialog", "running", "collecting"}
  /\ settings' = [settings EXCEPT !.recursive = ~@]
  /\ UNCHANGED <<target, fm, pc, op, props, stack, inflight, log, recReads,
                 fm0, heap, names, notices, dialog,
                 template, workspace, cmd, files>>

\* --------------------------------------------------------- name collection
\* The order [...names].sort() and the remove dialog's comparator put names in.
NameRank == [n \in PropNames |-> IF n = "status" THEN 1 ELSE 2]

RECURSIVE Sorted(_)
Sorted(S) ==
  IF S = {} THEN <<>>
  ELSE LET least == CHOOSE n \in S : \A m \in S : NameRank[n] <= NameRank[m]
       IN <<least>> \o Sorted(S \ {least})

Range(s) == { s[i] : i \in 1 .. Len(s) }

\* Set.prototype.add on an insertion-ordered Set.
SetAdd(set, x) == IF x \in Range(set) THEN set ELSE Append(set, x)

RECURSIVE SetAddAll(_, _)
SetAddAll(set, xs) == IF xs = <<>> THEN set ELSE SetAddAll(SetAdd(set, Head(xs)), Tail(xs))

\* addPropToSet: adds the file's frontmatter keys to the Set it was handed and
\* returns that same Set.
addPropToSet(h, set, doc) == [heap |-> [h EXCEPT ![set] = SetAddAll(@, Sorted(Keys(doc)))], ret |-> set]

\* getPropsFromFolder with the recursion left out: subfolders are skipped.
RECURSIVE getPropsFromFolderFlat(_, _, _)
getPropsFromFolderFlat(stk, recursive, folders) ==
  LET top == stk[Len(stk)]
  IN IF top.i > Len(top.items)
     THEN [stack |-> <<>>, start |-> <<>>, set |-> 0, ret |-> top.names, folders |-> folders]
     ELSE LET obj == top.items[top.i]
          IN IF IsMarkdown(obj)
             THEN [stack |-> Advance(stk), start |-> <<obj.path>>, set |-> top.names, ret |-> 0,
                   folders |-> folders]
             ELSE getPropsFromFolderFlat(Advance(stk), recursive, folders \/ IsFolder(obj))

\* getPropsFromFolder, run from the frames in stk up to its next await on host
\* I/O (start: the file to read, set: the Set passed along) or to the return
\* of the outermost call (ret: the Set its names variable refers to).
RECURSIVE getPropsFromFolder(_, _, _)
getPropsFromFolder(stk, recursive, folders) ==
  LET top == stk[Len(stk)]
  IN IF top.i > Len(top.items)
     THEN IF Len(stk) = 1
          THEN [stack |-> <<>>, start |-> <<>>, set |-> 0, ret |-> top.names, folders |-> folders]
          ELSE getPropsFromFolder(Pop(stk), recursive, folders)
     ELSE LET obj == top.items[top.i]
          IN IF IsMarkdown(obj)
             THEN [stack |-> Advance(stk), start |-> <<obj.path>>, set |-> top.names, ret |-> 0,
                   folders |-> folders]
             ELSE IF IsFolder(obj)
             THEN IF recursive
                  THEN getPropsFromFolder(Append(Advance(stk), Frame(obj.children, top.names)),
                                          recursive, TRUE)
                  ELSE getPropsFromFolder(Advance(stk), recursive, TRUE)
             ELSE getPropsFromFolder(Advance(stk), recursive, folders)

\* getPropsFromFiles, likewise.
RECURSIVE getPropsFromFiles(_)
getPropsFromFiles(stk) ==
  LET top == stk[Len(stk)]
  IN IF top.i > Len(top.items)
     THEN [stack |-> <<>>, start |-> <<>>, set |-> 0, ret |-> top.names, folders |-> FALSE]
     ELSE IF IsMarkdown(top.items[top.i])
     THEN [stack |-> Advance(stk), start |-> <<top.items[top.i].path>>, set |-> top.names,
           ret |-> 0, folders |-> FALSE]
     ELSE getPropsFromFiles(Advance(stk))

Collect(tgt, stk) ==
  IF tgt.kind = "folder" THEN getPropsFromFolder(stk, settings.recursive, FALSE)
  ELSE getPropsFromFiles(stk)

\* What the finished collection returns: [...names].sort() for a folder,
\* [...names] for a list.
Returned(tgt, h, set) == IF tgt.kind = "folder" THEN Sorted(Range(h[set])) ELSE h[set]

\* createRemoveModal once names is known: a notice and nothing else when
\* there is nothing to remove, the dialog over the sorted names otherwise.
RemoveModalOrNotice(found) ==
  IF Len(found) = 0
  THEN /\ notices' = Append(notices, "No properties to remove")
       /\ dialog' = dialog
       /\ pc' = "nothing"
  ELSE /\ notices' = notices
       /\ dialog' = [NoDialog EXCEPT !.kind = "remove", !.names = Sorted(Range(found))]
       /\ pc' = "dialog"

\* createRemoveModal continues after a run r of Collect over heap h.
Collecting(tgt, r, h, reads) ==
  /\ heap' = h
  /\ stack' = r.stack
  /\ recReads' = IF r.folders THEN reads \cup {settings.recursive} ELSE reads
  /\ IF r.start # <<>>
     THEN /\ inflight' = {Visit(0, r.start[1], FALSE, r.set)}
          /\ pc' = "collecting"
          /\ UNCHANGED <<names, notices, dialog>>
     ELSE /\ inflight' = {}
          /\ names' = Returned(tgt, h, r.ret)
          /\ RemoveModalOrNotice(Returned(tgt, h, r.ret))

\* createRemoveModal(iterable), up to its first await on host I/O; names
\* starts as new Set(), reference 1.
createRemoveModal(iterable) ==
  /\ target' = iterable
  /\ op' = "remove"
  /\ Collecting(iterable, Collect(iterable, <<Frame(iterable.items, 1)>>), <<<<>>>>, {})
  /\ UNCHANGED <<fm, settings, props, log, fm0, template>>

\* The host settles the read of one file's frontmatter.
ResolveRead ==
  /\ pc = "collecting"
  /\ \E v \in inflight :
       LET a == addPropToSet(heap, v.set, fm[v.file])
           stk == [stack EXCEPT ![Len(stack)].names = a.ret]
       IN Collecting(target, Collect(target, stk), a.heap, recReads)
  /\ UNCHANGED <<target, fm, settings, op, props, log, fm0, template, workspace, cmd, files>>

\* The host rejects the read: the rejection leaves createRemoveModal.
RejectRead ==
  /\ pc = "collecting"
  /\ inflight' = {}
  /\ stack' = <<>>
  /\ pc' = "aborted"
  /\ UNCHANGED <<target, fm, settings, op, props, log, recReads, fm0, heap, names,
                 notices, dialog, template, workspace, cmd, files>>

\* ----------------------------------------------------------- the add dialog
\* What getAbstractFileByPath(defaultPropPath + ".md") and the metadata cache
\* can hold: no file, a note without frontmatter, a note whose frontmatter
\* keys the type registry knows (up to case), a note with a key it does not.
NoTemplate == [exists |-> FALSE, frontmatter |-> FALSE, keys |-> <<>>]

Templates == { NoTemplate,
               [exists |-> TRUE, frontmatter |-> FALSE, keys |-> <<>>],
               [exists |-> TRUE, frontmatter |-> TRUE, keys |-> <<"Tags", "status">>],
               [exists |-> TRUE, frontmatter |-> TRUE, keys |-> <<"tags", "custom">>] }

\* key.toLowerCase()
toLowerCase(key) == IF key = "Tags" THEN "tags" ELSE key

EmptyRow == [name |-> "", value |-> "", type |-> "text"]

\* readYamlProperties(file).  cacheThrows: whether getFileCache fails on the
\* null file rather than finding no cache for it.  ret "undefined" is the
\* early return, "thrown" a TypeError leaving the method.
RECURSIVE TemplateRows(_)
TemplateRows(keys) ==
  IF keys = <<>> THEN <<>>
  ELSE <<[name |-> Head(keys), value |-> "x", type |-> TypeRegistry[toLowerCase(Head(keys))]]>>
       \o TemplateRows(Tail(keys))

readYamlProperties(file, cacheThrows) ==
  IF ~file.exists /\ cacheThrows THEN [ret |-> "thrown", rows |-> <<>>, notices |-> <<>>]
  ELSE IF ~file.frontmatter
  THEN [ret |-> "undefined", rows |-> <<>>, notices |-> <<"Not a valid Props template.">>]
  ELSE IF \E i \in 1 .. Len(file.keys) : toLowerCase(file.keys[i]) \notin DOMAIN TypeRegistry
  THEN [ret |-> "thrown", rows |-> <<>>, notices |-> <<>>]
  ELSE [ret |-> "rows", rows |-> TemplateRows(file.keys), notices |-> <<>>]

\* The defaultProps createPropModal hands to PropModal, with the notices shown
\* on the way.
DefaultProps(path, file, cacheThrows) ==
  IF path = "" THEN [rows |-> <<EmptyRow>>, notices |-> <<>>]
  ELSE LET tmp == readYamlProperties(file, cacheThrows)
       IN IF tmp.ret = "rows" THEN [rows |-> tmp.rows, notices |-> tmp.notices]
          ELSE [rows |-> <<>>,
                notices |-> Append(tmp.notices, "Check if you entered a valid path in the Default Props File setting.")]

\* createPropModal(iterable): no await, the dialog opens in the same run.
createPropModal(iterable) ==
  /\ target' = iterable
  /\ op' = "add"
  /\ \E cacheThrows \in BOOLEAN :
       LET d == DefaultProps(settings.defaultPropPath, template, cacheThrows)
       IN /\ notices' = notices \o d.notices
          /\ dialog' = [NoDialog EXCEPT !.kind = "add", !.defaultProps = d.rows,
                                        !.overwrite = settings.overwrite]
  /\ pc' = "dialog"
  /\ UNCHANGED <<fm, settings, props, stack, inflight, log, recReads, fm0, heap, names,
                 template>>

\* ------------------------------------------------------------ the workspace
NullFile == [kind |-> "null", ext |-> "", path |-> <<>>, children |-> <<>>]

\* The parents a leaf can have: two tab groups (one in the main window, one in
\* a second window) and a parent that is not a WorkspaceTabs, in that second
\* window.
MainTabs == [id |-> 1, tabs |-> TRUE, root |-> 1]

PopoutTabs == [id |-> 2, tabs |-> TRUE, root |-> 2]

PopoutSplit == [id |-> 3, tabs |-> FALSE, root |-> 2]

Parents == {MainTabs, PopoutTabs, PopoutSplit}

\* A leaf: its parent and its view, a FileView (showing a file or none) or not.
Leaf(parent, fileView, file) == [parent |-> parent, fileView |-> fileView, file |-> file]

Leaves == { Leaf(p, TRUE, f) : p \in Parents, f \in {ListNote1, ListNote2, NullFile} }
            \cup { Leaf(p, FALSE, NullFile) : p \in Parents }

\* iterateAllLeaves with the callback of _getFilesFromTabGroup: the leaves from
\* k on, files being the list built so far (fileSet holds their paths).
RECURSIVE iterateAllLeaves(_, _, _, _, _)
iterateAllLeaves(ls, k, active, byRoot, acc) ==
  IF k > Len(ls) THEN acc
  ELSE LET l == ls[k]
           same == IF byRoot THEN l.parent.root = active.parent.root ELSE l.parent = active.parent
           take == /\ same
                   /\ l.fileView
                   /\ l.file # NullFile
                   /\ l.file.path \notin { acc[j].path : j \in 1 .. Len(acc) }
       IN iterateAllLeaves(ls, k + 1, active, byRoot, IF take THEN Append(acc, l.file) ELSE acc)

\* _getFilesFromTabGroup with the window-root fallback taken for every leaf.
getFilesFromWindow(ls, leaf) ==
  IF leaf = 0 THEN <<>>
  ELSE iterateAllLeaves(ls, 1, ls[leaf], TRUE, <<>>)

\* _getFilesFromTabGroup(leaf); leaf 0 is null, otherwise an index into ls.
getFilesFromTabGroup(ls, leaf) ==
  IF leaf = 0 THEN <<>>
  ELSE iterateAllLeaves(ls, 1, ls[leaf], ~ls[leaf].parent.tabs, <<>>)

\* ------------------------------------------------------------- the commands
\* A command that found nothing to work on: one notice, then return.
NothingToDo(text) ==
  /\ notices' = Append(notices, text)
  /\ pc' = "nothing"
  /\ UNCHANGED <<target, fm, settings, op, props, stack, inflight, log, recReads, fm0,
                 heap, names, dialog, template>>

\* add-props-to-current-note without the return after the notice: the dialog
\* is opened all the same.
addPropsToCurrentNoteNoReturn ==
  /\ pc = "idle"
  /\ cmd' = "add-props-to-current-note"
  /\ target' = ListTarget(<<workspace.activeFile>>)
  /\ op' = "add"
  /\ notices' = IF workspace.activeFile = NullFile
                THEN Append(notices, "No active file to add properties to.")
                ELSE notices
  /\ dialog' = [NoDialog EXCEPT !.kind = "add", !.defaultProps = <<EmptyRow>>,
                                !.overwrite = settings.overwrite]
  /\ pc' = "dialog"
  /\ UNCHANGED <<fm, settings, props, stack, inflight, log, recReads, fm0, heap, names,
                 template, workspace, files>>

\* add-props-to-current-note
addPropsToCurrentNote ==
  /\ pc = "idle"
  /\ cmd' = "add-props-to-current-note"
  /\ IF workspace.activeFile = NullFile
     THEN NothingToDo("No active file to add properties to.")
     ELSE createPropModal(ListTarget(<<workspace.activeFile>>))
  /\ UNCHANGED <<workspace, files>>

\* remove-props-from-current-note
removePropsFromCurrentNote ==
  /\ pc = "idle"
  /\ cmd' = "remove-props-from-current-note"
  /\ IF workspace.activeFile = NullFile
     THEN NothingToDo("No active file to remove properties from.")
     ELSE createRemoveModal(ListTarget(<<workspace.activeFile>>))
  /\ UNCHANGED <<workspace, files>>

\* add-props-to-tab-group
addPropsToTabGroup ==
  /\ pc = "idle"
  /\ cmd' = "add-props-to-tab-group"
  /\ files' = getFilesFromTabGroup(workspace.leaves, workspace.activeLeaf)
  /\ IF Len(files') = 0
     THEN NothingToDo("No open tabs in the active tab group to add properties to.")
     ELSE createPropModal(ListTarget(files'))
  /\ UNCHANGED workspace

\* remove-props-from-tab-group
removePropsFromTabGroup ==
  /\ pc = "idle"
  /\ cmd' = "remove-props-from-tab-group"
  /\ files' = getFilesFromTabGroup(workspace.leaves, workspace.activeLeaf)
  /\ IF Len(files') = 0
     THEN NothingToDo("No open tabs in the active tab group to remove properties from.")
     ELSE createRemoveModal(ListTarget(files'))
  /\ UNCHANGED workspace

\* createPropModal / createRemoveModal called on a folder or a file list by
\* the plugin's other entry points.
addPropsTo ==
  /\ pc = "idle"
  /\ createPropModal(target)
  /\ UNCHANGED <<workspace, cmd, files>>

removePropsFrom ==
  /\ pc = "idle"
  /\ createRemoveModal(target)
  /\ UNCHANGED <<workspace, cmd, files>>

\* ------------------------------------------------------- the specifications
Workspace(ls, leaf, file) == [leaves |-> ls, activeLeaf |-> leaf, activeFile |-> file]

NoWorkspace == Workspace(<<>>, 0, NullFile)

\* The file of the active leaf's view, as getActiveFile() reports it.
ActiveFileOf(ls, leaf) == IF leaf # 0 /\ ls[leaf].fileView THEN ls[leaf].file ELSE NullFile

Workspaces ==
  { Workspace(ls, leaf, ActiveFileOf(ls, leaf)) :
      <<ls, leaf>> \in { <<l, a>> \in SeqsUpTo(Leaves, MaxLeaves) \X (0 .. MaxLeaves) : a <= Len(l) } }

\* A few arrangements for the commands: nothing open, no active leaf, a tab
\* group with a note open twice, an attachment in front, an empty tab group
\* beside a full one, a second window.
SampleWorkspaces ==
  { NoWorkspace,
    Workspace(<<Leaf(MainTabs, TRUE, ListNote1)>>, 0, NullFile),
    Workspace(<<Leaf(MainTabs, TRUE, ListNote1), Leaf(MainTabs, TRUE, ListNote2),
                Leaf(MainTabs, TRUE, ListNote1)>>, 2, ListNote2),
    Workspace(<<Leaf(MainTabs, TRUE, ListImage), Leaf(MainTabs, TRUE, ListNote1)>>, 1, ListImage),
    Workspace(<<Leaf(MainTabs, TRUE, ListNote1), Leaf(PopoutTabs, FALSE, NullFile)>>, 2, ListNote1),
    Workspace(<<Leaf(PopoutSplit, TRUE, ListNote2), Leaf(PopoutTabs, TRUE, ListNote1),
                Leaf(MainTabs, TRUE, ListNote1)>>, 1, ListNote2) }

\* The notes the leaves can show.
OpenNotes == {ListNote1.path, ListNote2.path}

\* The frontmatter of the notes behind the entries of an explicit file list.
ListVault ==
  [f \in MarkdownBelow(<<ListNote1, ListNote2, ListFolder>>) |->
     IF f = ListNote1.path THEN [EmptyDoc EXCEPT !["tags"] = Present(<<"x">>)]
     ELSE IF f = ListNote2.path THEN EmptyDoc
     ELSE [EmptyDoc EXCEPT !["status"] = Present(<<"draft">>)]]

InitCommon ==
  /\ pc = "idle"
  /\ op = "none"
  /\ props = <<>>
  /\ stack = <<>>
  /\ inflight = {}
  /\ log = <<>>
  /\ recReads = {}
  /\ fm0 = fm
  /\ heap = <<>>
  /\ names = <<>>
  /\ notices = <<>>
  /\ dialog = NoDialog
  /\ cmd = "none"
  /\ files = <<>>

\* A folder or a file list is about to be handed to createPropModal or
\* createRemoveModal.
Init ==
  /\ target \in Targets
  /\ fm \in (IF target.kind = "folder" THEN [MarkdownBelow(target.items) -> Docs] ELSE {ListVault})
  /\ settings \in loadSettings
  /\ template = NoTemplate
  /\ workspace = NoWorkspace
  /\ InitCommon

Next ==
  \/ addPropsTo
  \/ removePropsFrom
  \/ Submit
  \/ ResolveVisit
  \/ RejectVisit
  \/ ResolveRead
  \/ RejectRead
  \/ changeOverwrite
  \/ changeRecursive

Spec == Init /\ [][Next]_vars

\* The plugin is loaded and a command is about to be invoked.

InitCmd ==
  /\ target = ListTarget(<<>>)
  /\ fm \in [OpenNotes -> Docs]
  /\ settings \in { [s EXCEPT !.defaultPropPath = p] : s \in loadSettings, p \in {"", "Templates/props"} }
  /\ template \in (IF settings.defaultPropPath = "" THEN {NoTemplate} ELSE Templates)
  /\ workspace \in SampleWorkspaces
  /\ InitCommon

NextCmd ==
  \/ addPropsToCurrentNote
  \/ removePropsFromCurrentNote
  \/ addPropsToTabGroup
  \/ removePropsFromTabGroup
  \/ Submit
  \/ ResolveVisit
  \/ RejectVisit
  \/ ResolveRead
  \/ RejectRead
  \/ changeOverwrite

SpecCmd == InitCmd /\ [][NextCmd]_vars

\* Any arrangement of leaves, and a tab-group command about to be invoked.
InitTabs ==
  /\ target = ListTarget(<<>>)
  /\ fm = ListVault
  /\ settings = defaultSettings
  /\ template = NoTemplate
  /\ workspace \in Workspaces
  /\ InitCommon

NextTabs ==
  \/ addPropsToTabGroup
  \/ removePropsFromTabGroup
  \/ ResolveRead
  \/ RejectRead

SpecTabs == InitTabs /\ [][NextTabs]_vars

\* ----------------------------------------------------------------- claims
\* The markdown files a walk of a children list is to visit, in the order of
\* the children lists, depth first.
RECURSIVE MarkdownSeq(_, _)
MarkdownSeq(children, recursive) ==
  IF children = <<>> THEN <<>>
  ELSE LET c == Head(children)
           here == IF c.kind = "file" /\ c.ext = "md" THEN <<c.path>>
                   ELSE IF c.kind = "folder" /\ recursive THEN MarkdownSeq(c.children, recursive)
                   ELSE <<>>
       IN here \o MarkdownSeq(Tail(children), recursive)

\* The direct markdown children, and the markdown files of the whole walk.
MarkdownChildren(children) ==
  { children[i].path : i \in { j \in 1 .. Len(children) :
                                 children[j].kind = "file" /\ children[j].ext = "md" } }

MarkdownIn(children, recursive) ==
  IF recursive THEN MarkdownBelow(children) ELSE MarkdownChildren(children)

\* The files the callback was invoked on, in order.
LogFiles == [i \in 1 .. Len(log) |-> log[i].file]

NoDuplicates(s) == \A i, j \in 1 .. Len(s) : i # j => s[i] # s[j]

\* What a walk of the target is to visit under the recursion choice r.
TargetSeq(r) ==
  IF target.kind = "folder" THEN MarkdownSeq(target.items, r) ELSE MarkdownSeq(target.items, FALSE)

\* The walk of the batch has ended (a dialog was opened and submitted).
WalkEnded == dialog.kind # "none" /\ pc \in {"done", "aborted"}

\* C1: when the callback rejects for one markdown file, the walk still invokes
\* it on every remaining markdown file of the target: once the walk has ended,
\* the callback has been invoked on the whole target set.
C1_RejectionDoesNotStopTheWalk ==
  WalkEnded => \A r \in BOOLEAN : recReads \subseteq {r} => LogFiles = TargetSeq(r)

\* C2: within one walk at most one per-file call is in flight, and it is the
\* one of the latest callback invocation: no callback is invoked before the
\* previous one has settled.
C2_VisitsAreSequential ==
  /\ Cardinality(inflight) <= 1
  /\ pc = "running" => \A v \in inflight : v.id = Len(log)

\* C2's case: a nested searchFolders call has invoked the callback on a second
\* file, whose write is in flight.
C2_Witness ==
  /\ pc = "running"
  /\ target.kind = "folder"
  /\ Len(stack) >= 2
  /\ Len(log) >= 2
  /\ inflight # {}

\* A finished walk of a folder in which every read of the recursive setting
\* gave r has visited the markdown files r selects, each once, depth first in
\* the order of the children lists.
C3_Visited ==
  (target.kind = "folder" /\ dialog.kind # "none" /\ pc = "done") =>
    \A r \in BOOLEAN :
      recReads \subseteq {r} =>
        /\ LogFiles = MarkdownSeq(target.items, r)
        /\ Range(LogFiles) = MarkdownIn(target.items, r)
        /\ NoDuplicates(LogFiles)

\* The callback invocations are bounded by the markdown files of the tree, and
\* a running walk has a call in flight for the host to settle.
C3_Bounded ==
  target.kind = "folder" =>
    /\ Len(log) <= Cardinality(MarkdownBelow(target.items))
    /\ pc = "running" => inflight # {}

\* A step of a running walk ends it, or invokes the callback on one more file,
\* or is a change of settings that leaves the walk where it is.
C3_Progress ==
  pc = "running" =>
    \/ pc' \in {"done", "aborted"}
    \/ pc' = "running" /\ Len(log') = Len(log) + 1
    \/ pc' = "running" /\ log' = log /\ stack' = stack /\ inflight' = inflight

\* C3: with no failing visit, searchFolders terminates (C3_Bounded and
\* C3_Progress), and it has visited exactly the markdown files at every depth
\* (recursive = true) or the direct markdown children (recursive = false),
\* each once, never a non-markdown child, depth first in the order of the
\* children lists.
C3_FolderWalk ==
  /\ [](C3_Visited /\ C3_Bounded)
  /\ [][C3_Progress]_vars

\* C3's case: a recursive walk has finished, and it visited a nested file
\* before a later file.
C3_Witness ==
  /\ target.kind = "folder"
  /\ pc = "done"
  /\ recReads = {TRUE}
  /\ Len(log) >= 2
  /\ Len(log[1].file) >= 2

UnionOfKeys(paths) == UNION { { n \in PropNames : fm[f][n].has } : f \in paths }

\* C4: getPropsFromFolder on an empty accumulator returns, without duplicates,
\* the union of the frontmatter property names of the markdown files at every
\* depth (recursive = true) or of the direct markdown children (recursive =
\* false); names only found in nested subfolders are in the result.
C4_FolderNames ==
  (target.kind = "folder" /\ op = "remove" /\ pc \in {"dialog", "nothing"}) =>
    \A r \in BOOLEAN :
      recReads \subseteq {r} =>
        /\ Range(names) = UnionOfKeys(MarkdownIn(target.items, r))
        /\ NoDuplicates(names)

\* C4's case: the recursive collection returned two names, one of them found
\* in a nested subfolder only.
C4_Witness ==
  /\ target.kind = "folder"
  /\ op = "remove"
  /\ pc = "dialog"
  /\ recReads = {TRUE}
  /\ Len(names) = 2
  /\ \E n \in Range(names) : n \notin UnionOfKeys(MarkdownChildren(target.items))

\* C5: with a default-template path set and the template failing to load (no
\* file, or no frontmatter), createPropModal does not throw and opens the add
\* dialog with exactly one empty row.
C5_OneEmptyRowOnFailure ==
  (op = "add" /\ settings.defaultPropPath # "" /\ (~template.exists \/ ~template.frontmatter)) =>
    /\ dialog.kind = "add"
    /\ dialog.defaultProps = <<EmptyRow>>

\* The leaf shows a file in a file view of the active leaf's tab group, or of
\* its window when the active leaf's parent is no tab group.
InActiveGroup(l) ==
  LET active == workspace.leaves[workspace.activeLeaf]
  IN /\ l.fileView
     /\ l.file # NullFile
     /\ IF active.parent.tabs THEN l.parent.id = active.parent.id
        ELSE l.parent.root = active.parent.root

\* The three ways an operation resolves to nothing to do.
NoActiveFile ==
  /\ cmd \in {"add-props-to-current-note", "remove-props-from-current-note"}
  /\ workspace.activeFile = NullFile

NoOpenTabs ==
  /\ cmd \in {"add-props-to-tab-group", "remove-props-from-tab-group"}
  /\ \/ workspace.activeLeaf = 0
     \/ \A l \in Range(workspace.leaves) : ~InActiveGroup(l)

NothingToRemove ==
  /\ op = "remove"
  /\ pc \notin {"idle", "collecting", "aborted"}
  /\ \A f \in (IF target.kind = "folder" THEN MarkdownBelow(target.items)
               ELSE MarkdownChildren(target.items)) :
       \A n \in PropNames : ~fm0[f][n].has

\* C6: an operation that resolves to nothing to do (no active file, no open
\* file in the tab group, no property name to remove) shows exactly one
\* notice, opens no dialog, runs no walk and leaves every frontmatter alone.
C6_NothingToDo ==
  (NoActiveFile \/ NoOpenTabs \/ NothingToRemove) =>
    /\ Len(notices) = 1
    /\ dialog = NoDialog
    /\ pc = "nothing"
    /\ log = <<>>
    /\ inflight = {}
    /\ fm = fm0

\* C6's case: remove on a tab group of two notes, neither with a property.
C6_Witness ==
  /\ cmd = "remove-props-from-tab-group"
  /\ Len(files) = 2
  /\ NothingToRemove
  /\ pc = "nothing"

\* C7: searchFiles visits exactly the markdown entries of the list, in list
\* order, one visit per occurrence, and never enters a folder.
C7_ListWalk ==
  (target.kind = "list" /\ WalkEnded) => LogFiles = MarkdownSeq(target.items, FALSE)

\* The vault after the given callback invocations have each written.
RECURSIVE Replay(_, _)
Replay(docs, entries) ==
  IF entries = <<>> THEN docs
  ELSE Replay([docs EXCEPT ![Head(entries).file] = Updater(Head(entries), @)], Tail(entries))

\* C8: when a per-file write fails, what the earlier writes of the batch left
\* in the vault stays: the vault is the vault before the operation with the
\* completed writes applied, nothing is rolled back.
C8_EarlierWritesStay ==
  (pc = "aborted" /\ log # <<>>) => fm = Replay(fm0, SubSeq(log, 1, Len(log) - 1))

\* C8's case: the second or a later write failed after the first one had
\* changed its file.
C8_Witness ==
  /\ pc = "aborted"
  /\ Len(log) >= 2
  /\ fm[log[1].file] # fm0[log[1].file]

\* The first leaf of the active group that shows the file.
FirstLeafOf(f) ==
  CHOOSE k \in 1 .. Len(workspace.leaves) :
    /\ InActiveGroup(workspace.leaves[k]) /\ workspace.leaves[k].file = f
    /\ \A j \in 1 .. (k - 1) : ~(InActiveGroup(workspace.leaves[j]) /\ workspace.leaves[j].file = f)

\* C9: _getFilesFromTabGroup returns no two files of one path, only files shown
\* in file views of the active leaf's tab group (of its window when the parent
\* is no tab group), each at the position of its first such leaf, and nothing
\* for a null leaf.
C9_TabGroupFiles ==
  cmd \in {"add-props-to-tab-group", "remove-props-from-tab-group"} =>
    /\ \A i, j \in 1 .. Len(files) : i # j => files[i].path # files[j].path
    /\ workspace.activeLeaf = 0 => files = <<>>
    /\ workspace.activeLeaf # 0 =>
         /\ Range(files) = { l.file : l \in { x \in Range(workspace.leaves) : InActiveGroup(x) } }
         /\ \A i, j \in 1 .. Len(files) : i < j => FirstLeafOf(files[i]) < FirstLeafOf(files[j])

\* C9's case: the active leaf's parent is no tab group, and its window shows
\* one note under two parents and a second note.
C9_Witness ==
  /\ cmd = "add-props-to-tab-group"
  /\ workspace.activeLeaf # 0
  /\ ~workspace.leaves[workspace.activeLeaf].parent.tabs
  /\ Len(files) = 2
  /\ Len(workspace.leaves) = 3
  /\ \E i, j \in 1 .. 3 : /\ i # j
                          /\ InActiveGroup(workspace.leaves[i])
                          /\ InActiveGroup(workspace.leaves[j])
                          /\ workspace.leaves[i].file = workspace.leaves[j].file
                          /\ workspace.leaves[i].parent # workspace.leaves[j].parent

\* C10: all files of one bulk operation are processed under one configuration:
\* every callback invocation of the walk passes the same overwrite mode on, and
\* the files of a finished walk are those of one recursion choice.
C10_OneConfiguration ==
  pc \in {"running", "done"} =>
    /\ \A i, j \in 1 .. Len(log) : log[i].overwrite = log[j].overwrite
    /\ pc = "done" => \E r \in BOOLEAN : LogFiles = TargetSeq(r)

====
